---- MODULE Spec2Model ----
(***************************************************************************)
(* A model of the Turbo PLONK constraint system of                         *)
(* poly-iops/src/plonk/turbo_plonk_cs/mod.rs: the builder state, every     *)
(* public gadget, padding, and the reference witness verifier.             *)
(*                                                                         *)
(* The constraint system is generic over a scalar field F.  The model      *)
(* instantiates F with a prime field Z/p; p is fixed by the initial state  *)
(* and never changes.  Variable and row indices are 0-based as in the      *)
(* source; TLA+ sequences are 1-based, so entry i of a Vec is seq[i + 1].  *)
(*                                                                         *)
(* Every method of the builder is a function from a constraint-system      *)
(* record to the record after the call.  A failing assert! or an           *)
(* out-of-range slice index sets the record's panic flag at the point      *)
(* where the source panics, keeping the mutations made before it; the      *)
(* record's ret field carries the value the method returns.                *)
(***************************************************************************)
EXTENDS Integers, Sequences, FiniteSets, TLC

VARIABLES
    p,                                \* the modulus of the scalar field F
    selectors,                        \* Vec<Vec<F>>: N_SELECTORS columns
    wiring,                           \* [Vec<VarIndex>; N_WIRES_PER_GATE]
    num_vars,
    size,
    public_vars_constraint_indices,
    public_vars_witness_indices,
    witness,                          \* Vec<F>
    zero_var,                         \* Option<VarIndex>: <<>> or <<i>>
    one_var,                          \* Option<VarIndex>: <<>> or <<i>>
    panicked,                         \* the last call panicked
    last,                             \* the last call: name, arguments, result
    pre,                              \* the constraint system before the last call
    nops,                             \* number of calls made so far
    padded                            \* pad has been called

vars == <<p, selectors, wiring, num_vars, size, public_vars_constraint_indices,
          public_vars_witness_indices, witness, zero_var, one_var, panicked,
          last, pre, nops, padded>>

N_WIRES_PER_GATE == 5
N_SELECTORS == 13

(***************************************************************************)
(* Bounds of the model.                                                    *)
(***************************************************************************)
\* calls per behaviour of the general specification
MaxOps == 3
\* cap on num_vars
MaxVars == 9
\* cap on size
MaxRows == 8
\* largest n_bits handed to range_check in the general specification
MaxBits == 3
\* largest n_bits handed to range_check in the range-check specification
MaxRangeBits == 9
\* largest variable index handed to a gadget in the general specification
MaxIdx == 2
\* number of bytes Scalar::to_bytes returns (32 for the BLS12-381 scalar field)
ByteLen == 1

\* The field of the general specification and of the range-check specification.
SmallField == 5
RangeField == 37

(***************************************************************************)
(* The scalar field F = Z/p (the algebra crate's Scalar trait).            *)
(***************************************************************************)
F == 0 .. (p - 1)

FZero == 0

FOne == 1 % p

FAdd(a, b) == (a + b) % p

FSub(a, b) == (a + p - b) % p

FMul(a, b) == (a * b) % p

FNeg(a) == (p - a) % p

\* a.pow(&[5u64])
FPow5(a) == FMul(FMul(FMul(a, a), FMul(a, a)), a)

\* a.inv(): Err (<<>>) on the additive identity, Ok(<<a^-1>>) otherwise.
FInv(a) == IF a = 0 THEN <<>> ELSE <<CHOOSE y \in F : FMul(a, y) = 1>>

RECURSIVE Pow(_, _)
Pow(b, e) == IF e = 0 THEN 1 ELSE b * Pow(b, e - 1)

\* a.to_bytes(): the canonical integer in little-endian bytes.
ToBytes(a) == [i \in 1 .. ByteLen |-> (a \div Pow(256, i - 1)) % 256]

(***************************************************************************)
(* The constraint system as a record.                                      *)
(***************************************************************************)
CS == [selectors |-> selectors,
       wiring |-> wiring,
       num_vars |-> num_vars,
       size |-> size,
       public_vars_constraint_indices |-> public_vars_constraint_indices,
       public_vars_witness_indices |-> public_vars_witness_indices,
       witness |-> witness,
       zero_var |-> zero_var,
       one_var |-> one_var,
       panic |-> FALSE,
       ret |-> <<>>]

\* TurboPlonkConstraintSystem::new()
new == [selectors |-> [i \in 1 .. N_SELECTORS |-> <<>>],
        wiring |-> [i \in 1 .. N_WIRES_PER_GATE |-> <<>>],
        num_vars |-> 0,
        size |-> 0,
        public_vars_constraint_indices |-> <<>>,
        public_vars_witness_indices |-> <<>>,
        witness |-> <<>>,
        zero_var |-> <<>>,
        one_var |-> <<>>,
        panic |-> FALSE,
        ret |-> <<>>]

\* A failed assert! or slice index: the call stops here.
Panic(c) == [c EXCEPT !.panic = TRUE]

\* the value a method returns: v, unless the call has panicked
Ret(c, v) == IF c.panic THEN c ELSE [c EXCEPT !.ret = v]

\* self.witness[i]
W(c, i) == c.witness[i + 1]

\* whether self.witness[i] is in range
InWitness(c, i) == i < Len(c.witness)

(***************************************************************************)
(* Gate equation.                                                          *)
(***************************************************************************)
\* Ok(r) is <<r>>, Err(FuncParamsError) is <<>>.
eval_gate_func(wire_vals, sel_vals, pub_input) ==
    IF Len(wire_vals) # N_WIRES_PER_GATE \/ Len(sel_vals) # N_SELECTORS
    THEN <<>>
    ELSE LET add1 == FMul(sel_vals[1], wire_vals[1])
             add2 == FMul(sel_vals[2], wire_vals[2])
             add3 == FMul(sel_vals[3], wire_vals[3])
             add4 == FMul(sel_vals[4], wire_vals[4])
             mul1 == FMul(sel_vals[5], FMul(wire_vals[1], wire_vals[2]))
             mul2 == FMul(sel_vals[6], FMul(wire_vals[3], wire_vals[4]))
             constant == FAdd(sel_vals[7], pub_input)
             ecc == FMul(FMul(FMul(FMul(FMul(sel_vals[8], wire_vals[1]),
                                        wire_vals[2]), wire_vals[3]),
                              wire_vals[4]), wire_vals[5])
             hash1 == FMul(sel_vals[9], FPow5(wire_vals[1]))
             hash2 == FMul(sel_vals[10], FPow5(wire_vals[2]))
             hash3 == FMul(sel_vals[11], FPow5(wire_vals[3]))
             hash4 == FMul(sel_vals[12], FPow5(wire_vals[4]))
             out == FMul(sel_vals[13], wire_vals[5])
             r == FAdd(FAdd(FAdd(FAdd(FAdd(FAdd(FAdd(FAdd(FAdd(FAdd(FAdd(
                      add1, add2), add3), add4), mul1), mul2), ecc),
                      hash1), hash2), hash3), hash4), constant)
         IN  <<FSub(r, out)>>

\* the multipliers with the last one -w4, as the doc comment lists them
eval_selector_multipliers_neg_w4(wire_vals) ==
    IF Len(wire_vals) < N_WIRES_PER_GATE
    THEN <<>>
    ELSE << <<wire_vals[1],
              wire_vals[2],
              wire_vals[3],
              wire_vals[4],
              FMul(wire_vals[1], wire_vals[2]),
              FMul(wire_vals[3], wire_vals[4]),
              FOne,
              FMul(FMul(FMul(FMul(wire_vals[1], wire_vals[2]),
                             wire_vals[3]), wire_vals[4]), wire_vals[5]),
              FPow5(wire_vals[1]),
              FPow5(wire_vals[2]),
              FPow5(wire_vals[3]),
              FPow5(wire_vals[4]),
              FNeg(wire_vals[4])>> >>

eval_selector_multipliers(wire_vals) ==
    IF Len(wire_vals) < N_WIRES_PER_GATE
    THEN <<>>
    ELSE LET w0w1w2w3w4 == FMul(FMul(FMul(FMul(wire_vals[1], wire_vals[2]),
                                          wire_vals[3]), wire_vals[4]),
                                wire_vals[5])
         IN  << <<wire_vals[1],
                  wire_vals[2],
                  wire_vals[3],
                  wire_vals[4],
                  FMul(wire_vals[1], wire_vals[2]),
                  FMul(wire_vals[3], wire_vals[4]),
                  FOne,
                  w0w1w2w3w4,
                  FPow5(wire_vals[1]),
                  FPow5(wire_vals[2]),
                  FPow5(wire_vals[3]),
                  FPow5(wire_vals[4]),
                  FNeg(wire_vals[5])>> >>

quot_eval_dom_size(c) == IF c.size > 4 THEN c.size * 6 ELSE c.size * 16

\* compute_binary_le reading each byte from its most significant bit
compute_binary_le_msb_first(bytes) ==
    [k \in 1 .. 8 * Len(bytes) |->
        LET tmp == bytes[((k - 1) \div 8) + 1] \div Pow(2, 7 - ((k - 1) % 8))
        IN  IF tmp % 2 = 0 THEN FZero ELSE FOne]

\* compute_binary_le: eight bits per byte, least significant first.
compute_binary_le(bytes) ==
    [k \in 1 .. 8 * Len(bytes) |->
        LET tmp == bytes[((k - 1) \div 8) + 1] \div Pow(2, (k - 1) % 8)
        IN  IF tmp % 2 = 0 THEN FZero ELSE FOne]

(***************************************************************************)
(* Selector pushes and reserved variables.                                 *)
(***************************************************************************)
push_add_selectors(c, q1, q2, q3, q4) ==
    [c EXCEPT !.selectors = [@ EXCEPT ![1] = Append(@, q1),
                                      ![2] = Append(@, q2),
                                      ![3] = Append(@, q3),
                                      ![4] = Append(@, q4)]]

push_mul_selectors(c, q_mul12, q_mul34) ==
    [c EXCEPT !.selectors = [@ EXCEPT ![5] = Append(@, q_mul12),
                                      ![6] = Append(@, q_mul34)]]

push_constant_selector(c, q_c) ==
    [c EXCEPT !.selectors = [@ EXCEPT ![7] = Append(@, q_c)]]

\* the push of the ecc selector left out
push_ecc_selector_forgotten(c, q_ecc) == c

push_ecc_selector(c, q_ecc) ==
    [c EXCEPT !.selectors = [@ EXCEPT ![8] = Append(@, q_ecc)]]

push_rescue_selectors(c, q_hash_1, q_hash_2, q_hash_3, q_hash_4) ==
    [c EXCEPT !.selectors = [@ EXCEPT ![9] = Append(@, q_hash_1),
                                      ![10] = Append(@, q_hash_2),
                                      ![11] = Append(@, q_hash_3),
                                      ![12] = Append(@, q_hash_4)]]

push_out_selector(c, q_out) ==
    [c EXCEPT !.selectors = [@ EXCEPT ![13] = Append(@, q_out)]]

\* self.wiring[i].push(..) for the five wires of one row
PushWires(c, w) ==
    [c EXCEPT !.wiring = [k \in 1 .. N_WIRES_PER_GATE |-> Append(@[k], w[k])]]

\* zero_var() allocating a variable at every call
get_zero_var_uncached(c) ==
    IF c.panic THEN c
    ELSE [c EXCEPT !.zero_var = <<c.num_vars>>,
                   !.witness = Append(@, FZero),
                   !.num_vars = @ + 1,
                   !.ret = <<c.num_vars>>]

\* the method zero_var(); the field of the same name is c.zero_var
get_zero_var(c) ==
    IF c.panic THEN c
    ELSE IF c.zero_var = <<>>
    THEN [c EXCEPT !.zero_var = <<c.num_vars>>,
                   !.witness = Append(@, FZero),
                   !.num_vars = @ + 1,
                   !.ret = <<c.num_vars>>]
    ELSE [c EXCEPT !.ret = c.zero_var]

\* the method one_var(); the field of the same name is c.one_var
get_one_var(c) ==
    IF c.panic THEN c
    ELSE IF c.one_var = <<>>
    THEN [c EXCEPT !.one_var = <<c.num_vars>>,
                   !.witness = Append(@, FOne),
                   !.num_vars = @ + 1,
                   !.ret = <<c.num_vars>>]
    ELSE [c EXCEPT !.ret = c.one_var]

(***************************************************************************)
(* Primitive gates.                                                        *)
(***************************************************************************)
insert_lc_gate(c, wires_in, wire_out, q1, q2, q3, q4) ==
    IF c.panic THEN c
    ELSE IF \E i \in 1 .. 4 : wires_in[i] >= c.num_vars THEN Panic(c)
    ELSE IF wire_out >= c.num_vars THEN Panic(c)
    ELSE LET c1 == push_add_selectors(c, q1, q2, q3, q4)
             c2 == push_mul_selectors(c1, FZero, FZero)
             c3 == push_constant_selector(c2, FZero)
             c4 == push_ecc_selector(c3, FZero)
             c5 == push_rescue_selectors(c4, FZero, FZero, FZero, FZero)
             c6 == push_out_selector(c5, FOne)
             c7 == PushWires(c6, wires_in \o <<wire_out>>)
         IN  [c7 EXCEPT !.size = @ + 1, !.ret = <<>>]

insert_add_gate(c, left_var, right_var, out_var) ==
    insert_lc_gate(c, <<left_var, right_var, 0, 0>>, out_var,
                   FOne, FOne, FZero, FZero)

\* insert_sub_gate with the coefficient of the right wire 1, as in the add gate
insert_sub_gate_plus(c, left_var, right_var, out_var) ==
    insert_lc_gate(c, <<left_var, right_var, 0, 0>>, out_var,
                   FOne, FOne, FZero, FZero)

insert_sub_gate(c, left_var, right_var, out_var) ==
    insert_lc_gate(c, <<left_var, right_var, 0, 0>>, out_var,
                   FOne, FNeg(FOne), FZero, FZero)

insert_mul_gate(c, left_var, right_var, out_var) ==
    IF c.panic THEN c
    ELSE IF left_var >= c.num_vars THEN Panic(c)
    ELSE IF right_var >= c.num_vars THEN Panic(c)
    ELSE IF out_var >= c.num_vars THEN Panic(c)
    ELSE LET c1 == push_add_selectors(c, FZero, FZero, FZero, FZero)
             c2 == push_mul_selectors(c1, FOne, FZero)
             c3 == push_constant_selector(c2, FZero)
             c4 == push_ecc_selector(c3, FZero)
             c5 == push_rescue_selectors(c4, FZero, FZero, FZero, FZero)
             c6 == push_out_selector(c5, FOne)
             c7 == PushWires(c6, <<left_var, right_var, 0, 0, out_var>>)
         IN  [c7 EXCEPT !.size = @ + 1, !.ret = <<>>]

\* new_variable returning the variable count after the allocation
new_variable_count(c, value) ==
    IF c.panic THEN c
    ELSE [c EXCEPT !.num_vars = @ + 1,
                   !.witness = Append(@, value),
                   !.ret = <<c.num_vars + 1>>]

new_variable(c, value) ==
    IF c.panic THEN c
    ELSE [c EXCEPT !.num_vars = @ + 1,
                   !.witness = Append(@, value),
                   !.ret = <<c.num_vars>>]

add_variables(c, values) ==
    IF c.panic THEN c
    ELSE [c EXCEPT !.num_vars = @ + Len(values),
                   !.witness = @ \o values,
                   !.ret = <<>>]

(***************************************************************************)
(* Arithmetic gadgets.                                                     *)
(***************************************************************************)
linear_combine(c, wires_in, q1, q2, q3, q4) ==
    IF c.panic THEN c
    ELSE IF \E i \in 1 .. 4 : wires_in[i] >= c.num_vars THEN Panic(c)
    ELSE IF \E i \in 1 .. 4 : ~InWitness(c, wires_in[i]) THEN Panic(c)
    ELSE LET w0q1 == FMul(W(c, wires_in[1]), q1)
             w1q2 == FMul(W(c, wires_in[2]), q2)
             w2q3 == FMul(W(c, wires_in[3]), q3)
             w3q4 == FMul(W(c, wires_in[4]), q4)
             lc == FAdd(FAdd(FAdd(w0q1, w1q2), w2q3), w3q4)
             \* c1: after let wire_out = self.new_variable(lc)
             InsertGate(c1) ==
                 LET wire_out == c1.ret[1]
                 IN  Ret(insert_lc_gate(c1, wires_in, wire_out, q1, q2, q3, q4),
                         <<wire_out>>)
         IN  InsertGate(new_variable(c, lc))

add(c, left_var, right_var) ==
    IF c.panic THEN c
    ELSE IF left_var >= c.num_vars THEN Panic(c)
    ELSE IF right_var >= c.num_vars THEN Panic(c)
    ELSE IF ~InWitness(c, left_var) \/ ~InWitness(c, right_var) THEN Panic(c)
    ELSE LET \* c1: after let out_var = self.new_variable(..)
             InsertGate(c1) ==
                 LET out_var == c1.ret[1]
                 IN  Ret(insert_add_gate(c1, left_var, right_var, out_var),
                         <<out_var>>)
         IN  InsertGate(new_variable(c, FAdd(W(c, left_var), W(c, right_var))))

sub(c, left_var, right_var) ==
    IF c.panic THEN c
    ELSE IF left_var >= c.num_vars THEN Panic(c)
    ELSE IF right_var >= c.num_vars THEN Panic(c)
    ELSE IF ~InWitness(c, left_var) \/ ~InWitness(c, right_var) THEN Panic(c)
    ELSE LET \* c1: after let out_var = self.new_variable(..)
             InsertGate(c1) ==
                 LET out_var == c1.ret[1]
                 IN  Ret(insert_sub_gate(c1, left_var, right_var, out_var),
                         <<out_var>>)
         IN  InsertGate(new_variable(c, FSub(W(c, left_var), W(c, right_var))))

equal(c, left_var, right_var) ==
    IF c.panic THEN c
    ELSE LET \* c1: after let zero_var = self.zero_var()
             InsertGate(c1) ==
                 insert_sub_gate(c1, left_var, right_var, c1.ret[1])
         IN  InsertGate(get_zero_var(c))

mul(c, left_var, right_var) ==
    IF c.panic THEN c
    ELSE IF left_var >= c.num_vars THEN Panic(c)
    ELSE IF right_var >= c.num_vars THEN Panic(c)
    ELSE IF ~InWitness(c, left_var) \/ ~InWitness(c, right_var) THEN Panic(c)
    ELSE LET \* c1: after let out_var = self.new_variable(..)
             InsertGate(c1) ==
                 LET out_var == c1.ret[1]
                 IN  Ret(insert_mul_gate(c1, left_var, right_var, out_var),
                         <<out_var>>)
         IN  InsertGate(new_variable(c, FMul(W(c, left_var), W(c, right_var))))

\* insert_boolean_gate with the product wired to variable 0
insert_boolean_gate_out_zero(c, var) == insert_mul_gate(c, var, var, 0)

insert_boolean_gate(c, var) == insert_mul_gate(c, var, var, var)

(***************************************************************************)
(* Range check.                                                            *)
(***************************************************************************)
\* while binary_repr.len() < n_bits { binary_repr.push(F::zero()) }
ZeroExtend(binary_repr, n_bits) ==
    IF Len(binary_repr) < n_bits
    THEN binary_repr \o [i \in 1 .. n_bits - Len(binary_repr) |-> FZero]
    ELSE binary_repr

\* the bit variables allocated from the most significant bit down
RECURSIVE AllocBitsReversed(_, _, _)
AllocBitsReversed(c, bits, i) ==
    IF i > Len(bits) THEN c
    ELSE AllocBitsReversed(new_variable(c, bits[Len(bits) + 1 - i]), bits, i + 1)

\* binary_repr.into_iter().take(n_bits).map(|val| self.new_variable(val))
RECURSIVE AllocBits(_, _, _)
AllocBits(c, bits, i) ==
    IF i > Len(bits) THEN c
    ELSE AllocBits(new_variable(c, bits[i]), bits, i + 1)

\* the loop over b stopping one element early
RECURSIVE BooleanGatesButLast(_, _, _)
BooleanGatesButLast(c, b, i) ==
    IF i >= Len(b) THEN c
    ELSE BooleanGatesButLast(insert_boolean_gate(c, b[i]), b, i + 1)

\* for elem in b.iter() { self.insert_boolean_gate(*elem) }
RECURSIVE BooleanGates(_, _, _)
BooleanGates(c, b, i) ==
    IF i > Len(b) THEN c
    ELSE BooleanGates(insert_boolean_gate(c, b[i]), b, i + 1)

\* for i in 0..m { acc = self.linear_combine(..) }; the result's ret is <<acc>>
RECURSIVE RangeFold(_, _, _, _, _, _, _)
RangeFold(c, b, n_bits, bin, acc, i, m) ==
    IF c.panic THEN c
    ELSE IF i >= m THEN [c EXCEPT !.ret = <<acc>>]
    ELSE LET \* c1: after acc = self.linear_combine(..)
             Iterate(c1) ==
                 IF c1.panic THEN c1
                 ELSE RangeFold(c1, b, n_bits, bin, c1.ret[1], i + 1, m)
         IN  Iterate(linear_combine(c,
                         <<acc,
                           b[(n_bits - 1 - i * 3 - 1) + 1],
                           b[(n_bits - 1 - i * 3 - 2) + 1],
                           b[(n_bits - 1 - i * 3 - 3) + 1]>>,
                         bin[4], bin[3], bin[2], bin[1]))

\* the last row written into a fresh variable instead of var
RangeFinalGateFresh(c, b, bin, acc, var, rest) ==
    IF rest = 1
    THEN linear_combine(c, <<acc, b[1], 0, 0>>, bin[2], bin[1], FZero, FZero)
    ELSE IF rest = 2
    THEN linear_combine(c, <<acc, b[2], b[1], 0>>, bin[3], bin[2], bin[1], FZero)
    ELSE linear_combine(c, <<acc, b[3], b[2], b[1]>>,
                        bin[4], bin[3], bin[2], bin[1])

\* the last row: the remaining 1, 2 or 3 low bits, written into var itself
RangeFinalGate(c, b, bin, acc, var, rest) ==
    IF rest = 1
    THEN insert_lc_gate(c, <<acc, b[1], 0, 0>>, var,
                        bin[2], bin[1], FZero, FZero)
    ELSE IF rest = 2
    THEN insert_lc_gate(c, <<acc, b[2], b[1], 0>>, var,
                        bin[3], bin[2], bin[1], FZero)
    ELSE insert_lc_gate(c, <<acc, b[3], b[2], b[1]>>, var,
                        bin[4], bin[3], bin[2], bin[1])

range_check(c, var, n_bits) ==
    IF c.panic THEN c
    ELSE IF var >= c.num_vars THEN Panic(c)
    ELSE IF n_bits < 2 THEN Panic(c)
    ELSE IF ~InWitness(c, var) THEN Panic(c)
    ELSE LET witness_bytes == ToBytes(W(c, var))
             binary_repr == ZeroExtend(compute_binary_le(witness_bytes), n_bits)
             b == [i \in 1 .. n_bits |-> c.num_vars + i - 1]
             one == FOne
             two == FAdd(one, one)
             four == FAdd(two, two)
             eight == FAdd(four, four)
             bin == <<one, two, four, eight>>
             m == (n_bits - 2) \div 3
             \* c3: after the fold loop, whose acc is c3.ret[1]
             FinalGate(c3) ==
                 IF c3.panic THEN c3
                 ELSE Ret(RangeFinalGate(c3, b, bin, c3.ret[1], var,
                                         (n_bits - 1) - 3 * m), b)
         IN  FinalGate(
                 RangeFold(
                     BooleanGates(
                         AllocBits(c, SubSeq(binary_repr, 1, n_bits), 1),
                         b, 1),
                     b, n_bits, bin, b[(n_bits - 1) + 1], 0, m))

(***************************************************************************)
(* Select and the equality test.                                           *)
(***************************************************************************)
\* the selectors of select with qm1 = 1
SelectSelectorsPlus(c) ==
    LET zero == FZero
        one == FOne
        c1 == push_add_selectors(c, zero, one, zero, zero)
        c2 == push_mul_selectors(c1, one, one)
        c3 == push_constant_selector(c2, zero)
        c4 == push_ecc_selector(c3, zero)
        c5 == push_rescue_selectors(c4, zero, zero, zero, zero)
    IN  push_out_selector(c5, one)

\* Selectors: q2 = qm2 = qo = 1, qm1 = -1
SelectSelectors(c) ==
    LET zero == FZero
        one == FOne
        c1 == push_add_selectors(c, zero, one, zero, zero)
        c2 == push_mul_selectors(c1, FNeg(one), one)
        c3 == push_constant_selector(c2, zero)
        c4 == push_ecc_selector(c3, zero)
        c5 == push_rescue_selectors(c4, zero, zero, zero, zero)
    IN  push_out_selector(c5, one)

\* the output of select with the two branches exchanged
SelectOutSwapped(c, var0, var1, bit) ==
    IF W(c, bit) = FZero THEN W(c, var1) ELSE W(c, var0)

\* let out = if self.witness[bit] == zero { witness[var0] } else { witness[var1] }
SelectOut(c, var0, var1, bit) ==
    IF W(c, bit) = FZero THEN W(c, var0) ELSE W(c, var1)

select(c, var0, var1, bit) ==
    IF c.panic THEN c
    ELSE IF var0 >= c.num_vars THEN Panic(c)
    ELSE IF var1 >= c.num_vars THEN Panic(c)
    ELSE IF bit >= c.num_vars THEN Panic(c)
    ELSE LET zero == FZero
             \* c7: after let out_var = self.new_variable(out)
             PushRow(c7) ==
                 LET out_var == c7.ret[1]
                 IN  [PushWires(c7, <<bit, var0, bit, var1, out_var>>)
                         EXCEPT !.size = @ + 1, !.ret = <<out_var>>]
             \* c6: after the selectors are pushed
             Out(c6) ==
                 IF ~InWitness(c6, bit) THEN Panic(c6)
                 ELSE IF W(c6, bit) = zero /\ ~InWitness(c6, var0) THEN Panic(c6)
                 ELSE IF W(c6, bit) # zero /\ ~InWitness(c6, var1) THEN Panic(c6)
                 ELSE PushRow(new_variable(c6, SelectOut(c6, var0, var1, bit)))
         IN  Out(SelectSelectors(c))

\* the inverse left out
InvOrZeroNoInv(x) == x

\* x.inv().unwrap_or_else(|_| F::zero())
InvOrZero(x) == LET inv == FInv(x) IN IF inv = <<>> THEN FZero ELSE inv[1]

\* is_equal_or_not_equal without the gate that enforces diff * diff_is_zero = 0
is_equal_or_not_equal_unenforced(c, left_var, right_var) ==
    LET \* c5: after let diff_is_zero = self.sub(one_var, mul_var)
        Out(c5, mul_var) == Ret(c5, <<c5.ret[1], mul_var>>)
        \* c4: after let one_var = self.one_var()
        DiffIsZero(c4, mul_var) == Out(sub(c4, c4.ret[1], mul_var), mul_var)
        \* c3: after let mul_var = self.mul(diff, inv_diff)
        GetOneVar(c3) ==
            IF c3.panic THEN c3 ELSE DiffIsZero(get_one_var(c3), c3.ret[1])
        \* c2: after let inv_diff = self.new_variable(inv_diff_scalar)
        MulVar(c2, diff) == GetOneVar(mul(c2, diff, c2.ret[1]))
        \* c1: after let diff = self.sub(left_var, right_var)
        InvDiff(c1) ==
            LET diff == c1.ret[1]
            IN  IF c1.panic THEN c1
                ELSE IF ~InWitness(c1, diff) THEN Panic(c1)
                ELSE MulVar(new_variable(c1, InvOrZero(W(c1, diff))), diff)
    IN  IF c.panic THEN c
        ELSE InvDiff(sub(c, left_var, right_var))

\* ret is <<diff_is_zero, mul_var>>
is_equal_or_not_equal(c, left_var, right_var) ==
    LET \* c6: after let zero_var = self.zero_var()
        Enforce(c6, diff, mul_var, diff_is_zero) ==
            Ret(insert_mul_gate(c6, diff, diff_is_zero, c6.ret[1]),
                <<diff_is_zero, mul_var>>)
        \* c5: after let diff_is_zero = self.sub(one_var, mul_var)
        GetZeroVar(c5, diff, mul_var) ==
            IF c5.panic THEN c5
            ELSE Enforce(get_zero_var(c5), diff, mul_var, c5.ret[1])
        \* c4: after let one_var = self.one_var()
        DiffIsZero(c4, diff, mul_var) ==
            GetZeroVar(sub(c4, c4.ret[1], mul_var), diff, mul_var)
        \* c3: after let mul_var = self.mul(diff, inv_diff)
        GetOneVar(c3, diff) ==
            IF c3.panic THEN c3
            ELSE DiffIsZero(get_one_var(c3), diff, c3.ret[1])
        \* c2: after let inv_diff = self.new_variable(inv_diff_scalar)
        MulVar(c2, diff) == GetOneVar(mul(c2, diff, c2.ret[1]), diff)
        \* c1: after let diff = self.sub(left_var, right_var)
        InvDiff(c1) ==
            LET diff == c1.ret[1]
            IN  IF c1.panic THEN c1
                ELSE IF ~InWitness(c1, diff) THEN Panic(c1)
                ELSE MulVar(new_variable(c1, InvOrZero(W(c1, diff))), diff)
    IN  IF c.panic THEN c
        ELSE InvDiff(sub(c, left_var, right_var))

is_equal(c, left_var, right_var) ==
    LET First(c1) == Ret(c1, <<c1.ret[1]>>)
    IN  First(is_equal_or_not_equal(c, left_var, right_var))

is_not_equal(c, left_var, right_var) ==
    LET Second(c1) == Ret(c1, <<c1.ret[2]>>)
    IN  Second(is_equal_or_not_equal(c, left_var, right_var))

(***************************************************************************)
(* Constant gate, public inputs, padding.                                  *)
(***************************************************************************)
insert_constant_gate(c, var, constant) ==
    IF c.panic THEN c
    ELSE IF var >= c.num_vars THEN Panic(c)
    ELSE LET zero == FZero
             c1 == push_add_selectors(c, zero, zero, zero, zero)
             c2 == push_mul_selectors(c1, zero, zero)
             c3 == push_constant_selector(c2, constant)
             c4 == push_ecc_selector(c3, zero)
             c5 == push_rescue_selectors(c4, zero, zero, zero, zero)
             c6 == push_out_selector(c5, FOne)
             c7 == PushWires(c6, [i \in 1 .. N_WIRES_PER_GATE |-> var])
         IN  [c7 EXCEPT !.size = @ + 1, !.ret = <<>>]

\* prepare_io_variable with the two pushes exchanged
prepare_io_variable_swapped(c, var) ==
    IF c.panic THEN c
    ELSE LET c1 == [c EXCEPT !.public_vars_witness_indices = Append(@, c.size),
                             !.public_vars_constraint_indices = Append(@, var)]
         IN  insert_constant_gate(c1, var, FZero)

\* prepare_io_variable recording the row after the one it inserts
prepare_io_variable_next_row(c, var) ==
    IF c.panic THEN c
    ELSE LET c1 == [c EXCEPT !.public_vars_witness_indices = Append(@, var),
                             !.public_vars_constraint_indices =
                                 Append(@, c.size + 1)]
         IN  insert_constant_gate(c1, var, FZero)

prepare_io_variable(c, var) ==
    IF c.panic THEN c
    ELSE LET c1 == [c EXCEPT !.public_vars_witness_indices = Append(@, var),
                             !.public_vars_constraint_indices = Append(@, c.size)]
         IN  insert_constant_gate(c1, var, FZero)

\* usize::next_power_of_two: the smallest power of two >= n (1 for n = 0)
RECURSIVE PowerOfTwoFrom(_, _)
PowerOfTwoFrom(n, k) == IF k >= n THEN k ELSE PowerOfTwoFrom(n, 2 * k)

\* the smallest power of two strictly above n
next_power_of_two_above(n) == PowerOfTwoFrom(n + 1, 1)

next_power_of_two(n) == PowerOfTwoFrom(n, 1)

pad(c) ==
    IF c.panic THEN c
    ELSE LET n == next_power_of_two(c.size)
             diff == n - c.size
         IN  [c EXCEPT !.selectors = [k \in 1 .. N_SELECTORS |->
                                         @[k] \o [i \in 1 .. diff |-> FZero]],
                       !.wiring = [k \in 1 .. N_WIRES_PER_GATE |->
                                      @[k] \o [i \in 1 .. diff |-> 0]],
                       !.size = @ + diff,
                       !.ret = <<>>]

\* get_and_clear_witness clearing the store before copying it
get_and_clear_witness_clear_first(c) ==
    IF c.panic THEN c
    ELSE [c EXCEPT !.witness = <<>>, !.ret = <<>>]

\* ret is the extracted witness
get_and_clear_witness(c) ==
    IF c.panic THEN c
    ELSE [c EXCEPT !.ret = c.witness, !.witness = <<>>]

(***************************************************************************)
(* Witness verifier.                                                       *)
(***************************************************************************)
get_witness_index(c, wire_index, cs_index) ==
    c.wiring[wire_index + 1][cs_index + 1]

\* The scan of the public-input bindings for row cs_index, from binding k on.
\* res is "Ok" with the row's public contribution pi, "Err" on a binding
\* mismatch, "Panic" when the bound variable is outside the witness.
RECURSIVE ScanBindings(_, _, _, _, _, _)
ScanBindings(c, w, online_vars, cs_index, k, public_online) ==
    IF k > Len(online_vars) THEN [res |-> "Ok", pi |-> public_online]
    ELSE IF c.public_vars_constraint_indices[k] = cs_index
    THEN LET w_i == c.public_vars_witness_indices[k]
         IN  IF w_i >= Len(w) THEN [res |-> "Panic", pi |-> public_online]
             ELSE IF w[w_i + 1] # online_vars[k]
             THEN [res |-> "Err", pi |-> public_online]
             ELSE ScanBindings(c, w, online_vars, cs_index, k + 1,
                               online_vars[k])
    ELSE ScanBindings(c, w, online_vars, cs_index, k + 1, public_online)

\* The body of the loop over the rows, for one row: "Ok", "Err" or "Panic".
VerifyRow(c, w, online_vars, cs_index) ==
    LET scan == ScanBindings(c, w, online_vars, cs_index, 1, FZero)
    IN  IF scan.res # "Ok" THEN scan.res
        ELSE IF \E k \in 0 .. N_WIRES_PER_GATE - 1 :
                    get_witness_index(c, k, cs_index) >= Len(w)
        THEN "Panic"
        ELSE LET wire_vals == [k \in 1 .. N_WIRES_PER_GATE |->
                                  w[get_witness_index(c, k - 1, cs_index) + 1]]
                 sel_vals == [i \in 1 .. N_SELECTORS |->
                                 c.selectors[i][cs_index + 1]]
                 eval_gate == eval_gate_func(wire_vals, sel_vals, scan.pi)
             IN  IF eval_gate = <<>> THEN "Err"
                 ELSE IF eval_gate[1] # FZero THEN "Err"
                 ELSE "Ok"

RECURSIVE VerifyRows(_, _, _, _)
VerifyRows(c, w, online_vars, cs_index) ==
    IF cs_index >= c.size THEN "Ok"
    ELSE LET r == VerifyRow(c, w, online_vars, cs_index)
         IN  IF r # "Ok" THEN r
             ELSE VerifyRows(c, w, online_vars, cs_index + 1)

\* verify_witness turning away only the witnesses that are too short
verify_witness_short_only(c, w, online_vars) ==
    IF Len(w) < c.num_vars THEN "Err"
    ELSE IF Len(online_vars) # Len(c.public_vars_witness_indices)
            \/ Len(online_vars) # Len(c.public_vars_constraint_indices)
    THEN "Err"
    ELSE VerifyRows(c, w, online_vars, 0)

\* "Ok", "Err", or "Panic" (an index outside the witness slice)
verify_witness(c, w, online_vars) ==
    IF Len(w) # c.num_vars THEN "Err"
    ELSE IF Len(online_vars) # Len(c.public_vars_witness_indices)
            \/ Len(online_vars) # Len(c.public_vars_constraint_indices)
    THEN "Err"
    ELSE VerifyRows(c, w, online_vars, 0)

(***************************************************************************)
(* The witnesses verify_witness accepts.                                   *)
(*                                                                         *)
(* verify_witness returns Ok for (w, online_vars) only when online_vars[k] *)
(* equals w at the k-th bound variable, so the accepted witnesses are the  *)
(* w accepted with OnlineOf(c, w).  Accepted(c) enumerates them variable   *)
(* by variable, checking every row with VerifyRow as soon as all the       *)
(* variables it reads are assigned (the later entries are filled with 0    *)
(* and not read by those rows).                                            *)
(***************************************************************************)
OnlineOf(c, w) ==
    [k \in 1 .. Len(c.public_vars_witness_indices) |->
        w[c.public_vars_witness_indices[k] + 1]]

\* the variables row r reads: its wires and the variables bound to it
RowVars(c, r) ==
    {get_witness_index(c, k, r) : k \in 0 .. N_WIRES_PER_GATE - 1}
    \cup {c.public_vars_witness_indices[k] :
            k \in {j \in 1 .. Len(c.public_vars_constraint_indices) :
                      c.public_vars_constraint_indices[j] = r}}

MaxOf(S) == CHOOSE x \in S : \A y \in S : y <= x

\* the rows whose last-assigned variable is v
RowsClosedAt(c, v) == {r \in 0 .. c.size - 1 : MaxOf(RowVars(c, r)) = v}

Fill(c, w) == w \o [i \in 1 .. c.num_vars - Len(w) |-> FZero]

RECURSIVE Extend(_, _)
Extend(c, w) ==
    IF Len(w) = c.num_vars THEN {w}
    ELSE LET v == Len(w)
             rows == RowsClosedAt(c, v)
             ok == {x \in F :
                      LET full == Fill(c, Append(w, x))
                      IN  \A r \in rows :
                            VerifyRow(c, full, OnlineOf(c, full), r) = "Ok"}
         IN  UNION {Extend(c, Append(w, x)) : x \in ok}

Accepted(c) ==
    IF \E r \in 0 .. c.size - 1 : \E v \in RowVars(c, r) : v >= c.num_vars
    THEN {}
    ELSE Extend(c, <<>>)

\* The same set by definition: every vector of length num_vars, every choice
\* of public inputs.
AcceptedByDefinition(c) ==
    {w \in [1 .. c.num_vars -> F] :
        \E o \in [1 .. Len(c.public_vars_witness_indices) -> F] :
            verify_witness(c, w, o) = "Ok"}

(***************************************************************************)
(* Calls: one action per public method.                                    *)
(***************************************************************************)
Call(op, args, c) ==
    /\ ~panicked
    /\ selectors' = c.selectors
    /\ wiring' = c.wiring
    /\ num_vars' = c.num_vars
    /\ size' = c.size
    /\ public_vars_constraint_indices' = c.public_vars_constraint_indices
    /\ public_vars_witness_indices' = c.public_vars_witness_indices
    /\ witness' = c.witness
    /\ zero_var' = c.zero_var
    /\ one_var' = c.one_var
    /\ panicked' = c.panic
    /\ last' = [op |-> op, args |-> args, ret |-> c.ret]
    /\ pre' = CS
    /\ nops' = nops + 1
    /\ padded' = (padded \/ op = "pad")
    /\ p' = p

\* variable indices handed to the gadgets: the in-bound ones up to MaxIdx, and
\* num_vars itself (out of bound) while it is at most MaxIdx
Idx == 0 .. (IF num_vars < MaxIdx THEN num_vars ELSE MaxIdx)

LcCoeffs == {<<FOne, FOne, FOne, FOne>>,
             <<FAdd(FOne, FOne), FAdd(FOne, FAdd(FOne, FOne)), FOne, FOne>>,
             <<FZero, FNeg(FOne), FOne, FZero>>}

\* the in-bound ones among Idx
InIdx == {i \in Idx : i < num_vars}

\* indices for the gates that take their output wire as an argument
LowIdx == {i \in Idx : i <= 1}

AddVarSeqs == {<<>>} \cup {<<x, y>> : x \in F, y \in 0 .. 2}

NewVariable(value) == Call("new_variable", <<value>>, new_variable(CS, value))

AddVariables(values) == Call("add_variables", values, add_variables(CS, values))

ZeroVar == Call("zero_var", <<>>, get_zero_var(CS))

OneVar == Call("one_var", <<>>, get_one_var(CS))

InsertLcGate(wires_in, wire_out, q) ==
    Call("insert_lc_gate", wires_in \o <<wire_out>> \o q,
         insert_lc_gate(CS, wires_in, wire_out, q[1], q[2], q[3], q[4]))

InsertAddGate(l, r, o) ==
    Call("insert_add_gate", <<l, r, o>>, insert_add_gate(CS, l, r, o))

InsertSubGate(l, r, o) ==
    Call("insert_sub_gate", <<l, r, o>>, insert_sub_gate(CS, l, r, o))

InsertMulGate(l, r, o) ==
    Call("insert_mul_gate", <<l, r, o>>, insert_mul_gate(CS, l, r, o))

LinearCombine(wires_in, q) ==
    Call("linear_combine", wires_in \o q,
         linear_combine(CS, wires_in, q[1], q[2], q[3], q[4]))

Add(l, r) == Call("add", <<l, r>>, add(CS, l, r))

Sub(l, r) == Call("sub", <<l, r>>, sub(CS, l, r))

Mul(l, r) == Call("mul", <<l, r>>, mul(CS, l, r))

Equal(l, r) == Call("equal", <<l, r>>, equal(CS, l, r))

InsertBooleanGate(var) ==
    Call("insert_boolean_gate", <<var>>, insert_boolean_gate(CS, var))

RangeCheck(var, n_bits) ==
    Call("range_check", <<var, n_bits>>, range_check(CS, var, n_bits))

Select(var0, var1, bit) ==
    Call("select", <<var0, var1, bit>>, select(CS, var0, var1, bit))

IsEqual(l, r) == Call("is_equal", <<l, r>>, is_equal(CS, l, r))

IsNotEqual(l, r) == Call("is_not_equal", <<l, r>>, is_not_equal(CS, l, r))

IsEqualOrNotEqual(l, r) ==
    Call("is_equal_or_not_equal", <<l, r>>, is_equal_or_not_equal(CS, l, r))

InsertConstantGate(var, constant) ==
    Call("insert_constant_gate", <<var, constant>>,
         insert_constant_gate(CS, var, constant))

PrepareIoVariable(var) ==
    Call("prepare_io_variable", <<var>>, prepare_io_variable(CS, var))

Pad == Call("pad", <<>>, pad(CS))

GetAndClearWitness ==
    Call("get_and_clear_witness", <<>>, get_and_clear_witness(CS))

(***************************************************************************)
(* Specifications.                                                         *)
(***************************************************************************)
InitWith(field) ==
    /\ p = field
    /\ selectors = new.selectors
    /\ wiring = new.wiring
    /\ num_vars = new.num_vars
    /\ size = new.size
    /\ public_vars_constraint_indices = new.public_vars_constraint_indices
    /\ public_vars_witness_indices = new.public_vars_witness_indices
    /\ witness = new.witness
    /\ zero_var = new.zero_var
    /\ one_var = new.one_var
    /\ panicked = FALSE
    /\ last = [op |-> "new", args |-> <<>>, ret |-> <<>>]
    /\ pre = new
    /\ nops = 0
    /\ padded = FALSE

Init == InitWith(SmallField)

\* a step within the bounds of the model
Bounded(A) ==
    /\ nops < MaxOps
    /\ A
    /\ num_vars' <= MaxVars
    /\ size' <= MaxRows

\* Every public method, on indices in and out of bound.
Next ==
    \/ Bounded(\E value \in F : NewVariable(value))
    \/ Bounded(\E values \in AddVarSeqs : AddVariables(values))
    \/ Bounded(ZeroVar)
    \/ Bounded(OneVar)
    \/ Bounded(\E a, b, o \in LowIdx : \E q \in LcCoeffs :
                   InsertLcGate(<<a, b, b, a>>, o, q))
    \/ Bounded(\E l, r, o \in LowIdx : InsertAddGate(l, r, o))
    \/ Bounded(\E l, r, o \in LowIdx : InsertSubGate(l, r, o))
    \/ Bounded(\E l, r, o \in LowIdx : InsertMulGate(l, r, o))
    \/ Bounded(\E a, b \in LowIdx : \E q \in LcCoeffs :
                   LinearCombine(<<a, b, b, a>>, q))
    \/ Bounded(\E l, r \in Idx : Add(l, r))
    \/ Bounded(\E l, r \in Idx : Sub(l, r))
    \/ Bounded(\E l, r \in Idx : Mul(l, r))
    \/ Bounded(\E l, r \in Idx : Equal(l, r))
    \/ Bounded(\E var \in Idx : InsertBooleanGate(var))
    \/ Bounded(\E var \in Idx : \E n_bits \in 1 .. MaxBits : RangeCheck(var, n_bits))
    \/ Bounded(\E var0, var1, bit \in Idx : Select(var0, var1, bit))
    \/ Bounded(\E l, r \in Idx : IsEqual(l, r))
    \/ Bounded(\E l, r \in Idx : IsNotEqual(l, r))
    \/ Bounded(\E l, r \in Idx : IsEqualOrNotEqual(l, r))
    \/ Bounded(\E var \in Idx : \E constant \in F : InsertConstantGate(var, constant))
    \/ Bounded(\E var \in Idx : PrepareIoVariable(var))
    \/ Bounded(Pad)
    \/ Bounded(GetAndClearWitness)

Spec == Init /\ [][Next]_vars

\* The constructions of the honest-witness property: the value-producing
\* gadgets and pad, on in-bound indices.
NextHonest ==
    \/ Bounded(\E value \in F : NewVariable(value))
    \/ Bounded(\E values \in AddVarSeqs : AddVariables(values))
    \/ Bounded(\E a, b \in InIdx : \E q \in LcCoeffs : LinearCombine(<<a, b, b, a>>, q))
    \/ Bounded(\E l, r \in InIdx : Add(l, r))
    \/ Bounded(\E l, r \in InIdx : Sub(l, r))
    \/ Bounded(\E l, r \in InIdx : Mul(l, r))
    \/ Bounded(\E l, r \in InIdx : IsEqual(l, r))
    \/ Bounded(\E l, r \in InIdx : IsNotEqual(l, r))
    \/ Bounded(\E l, r \in InIdx : IsEqualOrNotEqual(l, r))
    \/ Bounded(Pad)

SpecHonest == Init /\ [][NextHonest]_vars

\* The same constructions with public inputs: prepare_io_variable on in-bound
\* indices.
NextIo ==
    \/ NextHonest
    \/ Bounded(\E var \in InIdx : PrepareIoVariable(var))

SpecIo == Init /\ [][NextIo]_vars

\* Padding at every row count up to MaxRows: one variable, boolean gates on
\* it, and pad between them (on the empty system too).
NextPad ==
    \/ /\ num_vars = 0
       /\ \E value \in F : NewVariable(value)
    \/ /\ size < MaxRows
       /\ \E var \in InIdx : InsertBooleanGate(var)
    \/ /\ last.op # "pad"
       /\ Pad
       /\ size' <= MaxRows

SpecPad == Init /\ [][NextPad]_vars

\* The field of the gate-equation specification: in Z/7 the fifth power is
\* neither the identity nor a constant.
GateField == 7

InitGate == InitWith(GateField)

\* selector values handed to eval_gate_func: one selector set and the others
\* zero, all selectors equal, and two vectors of mixed values
SelVals ==
    {[i \in 1 .. N_SELECTORS |-> IF i = k THEN x ELSE FZero] :
        k \in 1 .. N_SELECTORS, x \in {FOne, FAdd(FOne, FAdd(FOne, FOne))}}
    \cup {[i \in 1 .. N_SELECTORS |-> x] : x \in {FZero, FOne, FNeg(FOne)}}
    \cup {[i \in 1 .. N_SELECTORS |-> i % p],
          [i \in 1 .. N_SELECTORS |-> (i * i + 2) % p]}

PubVals == {FZero, FOne, FNeg(FOne)}

EvalGateFunc(sel_vals, pub_input) ==
    Call("eval_gate_func", <<sel_vals, pub_input>>,
         Ret(CS, eval_gate_func(witness, sel_vals, pub_input)))

EvalSelectorMultipliers ==
    Call("eval_selector_multipliers", <<>>,
         Ret(CS, eval_selector_multipliers(witness)))

\* Five variables of any values, then the gate equation or the selector
\* multipliers evaluated on them as the five wire values.
NextGate ==
    \/ /\ num_vars < N_WIRES_PER_GATE
       /\ \E value \in F : NewVariable(value)
    \/ /\ num_vars = N_WIRES_PER_GATE
       /\ last.op = "new_variable"
       /\ \E sel_vals \in SelVals : \E pub_input \in PubVals :
              EvalGateFunc(sel_vals, pub_input)
    \/ /\ num_vars = N_WIRES_PER_GATE
       /\ last.op = "new_variable"
       /\ EvalSelectorMultipliers

SpecGate == InitGate /\ [][NextGate]_vars

\* coefficients handed to insert_lc_gate in the primitive-gate specification
LcQs == {<<x, FOne, y, FNeg(x)>> : x, y \in F}

\* wires handed to insert_lc_gate there: all different from the output,
\* repeated, and the output among the inputs
LcWires == {<<<<0, 1, 2, 3>>, 4>>, <<<<1, 2, 3, 4>>, 0>>, <<<<3, 3, 1, 2>>, 4>>,
            <<<<2, 4, 1, 3>>, 2>>}

\* the stored values of the variables of the primitive-gate specification
RowValues == {[i \in 1 .. N_WIRES_PER_GATE |-> FZero],
              [i \in 1 .. N_WIRES_PER_GATE |-> FOne],
              [i \in 1 .. N_WIRES_PER_GATE |-> (i - 1) % p]}

\* N_WIRES_PER_GATE variables, then one primitive gate on any of them.
NextRows ==
    \/ /\ num_vars = 0
       /\ \E values \in RowValues : AddVariables(values)
    \/ /\ num_vars = N_WIRES_PER_GATE
       /\ size = 0
       /\ \E w \in LcWires : \E q \in LcQs : InsertLcGate(w[1], w[2], q)
    \/ /\ num_vars = N_WIRES_PER_GATE
       /\ size = 0
       /\ \E l, r, o \in 0 .. num_vars - 1 : InsertAddGate(l, r, o)
    \/ /\ num_vars = N_WIRES_PER_GATE
       /\ size = 0
       /\ \E l, r, o \in 0 .. num_vars - 1 : InsertSubGate(l, r, o)
    \/ /\ num_vars = N_WIRES_PER_GATE
       /\ size = 0
       /\ \E l, r, o \in 0 .. num_vars - 1 : InsertMulGate(l, r, o)
    \/ /\ num_vars = N_WIRES_PER_GATE
       /\ size = 0
       /\ \E var \in 0 .. num_vars - 1 : \E constant \in F :
              InsertConstantGate(var, constant)

SpecRows == Init /\ [][NextRows]_vars

\* One variable of any value and one range check of it, over a field large
\* enough for 5-bit ranges (a fold and a last row).
InitRange == InitWith(RangeField)

NextRange ==
    \/ /\ num_vars = 0
       /\ \E value \in F : NewVariable(value)
    \/ /\ size = 0
       /\ \E var \in InIdx : \E n_bits \in 2 .. MaxRangeBits :
              RangeCheck(var, n_bits)

SpecRange == InitRange /\ [][NextRange]_vars

(***************************************************************************)
(* Vocabulary of the properties.                                           *)
(***************************************************************************)
\* the last call was op and it returned
Returned(op) == last.op = op /\ ~panicked

\* the witness store holds one value per variable (it was not cleared)
Aligned(c) == Len(c.witness) = c.num_vars

EqualityTests == {"is_equal", "is_not_equal", "is_equal_or_not_equal"}

\* the vector of length num_vars that agrees with f on its domain (a set of
\* variable indices) and is 0 elsewhere
FullOf(c, f) ==
    [i \in 1 .. c.num_vars |-> IF (i - 1) \in DOMAIN f THEN f[i - 1] ELSE FZero]

\* row r is satisfied by the vector w
RowSatisfied(c, w, r) == VerifyRow(c, w, OnlineOf(c, w), r) = "Ok"

\* sum over i of 2^i * w[b_i], as an integer
RECURSIVE SumBits(_, _, _)
SumBits(w, b, i) ==
    IF i > Len(b) THEN 0
    ELSE Pow(2, i - 1) * w[b[i] + 1] + SumBits(w, b, i + 1)

(***************************************************************************)
(* C1.  After any sequence of new_variable / add_variables, add, sub, mul, *)
(* linear_combine, is_equal / is_not_equal / is_equal_or_not_equal and pad *)
(* calls on in-bound indices, verify_witness on the stored witness with no *)
(* public inputs returns Ok.  (Stated for SpecHonest.)                     *)
(***************************************************************************)
C1_HonestWitnessAccepted == verify_witness(CS, witness, <<>>) = "Ok"

(***************************************************************************)
(* C2.  After an equality test on left and right, every witness that       *)
(* verify_witness accepts has equal_flag = 1 when witness[left] =          *)
(* witness[right] and equal_flag = 0 otherwise.                            *)
(***************************************************************************)
C2_EqualFlagSound ==
    (last.op \in EqualityTests /\ ~panicked) =>
        LET left == last.args[1]
            right == last.args[2]
            equal_flag == get_witness_index(CS, 4, pre.size + 2)
        IN  \A w \in Accepted(CS) :
                w[equal_flag + 1] =
                    (IF w[left + 1] = w[right + 1] THEN FOne ELSE FZero)

(***************************************************************************)
(* C3.  After range_check(var, n_bits) with 2^n_bits not exceeding the     *)
(* field size, every accepted witness has every returned bit variable in   *)
(* {0, 1} and witness[var] = sum of 2^i * witness[b_i], hence              *)
(* witness[var] < 2^n_bits.  (Stated for SpecRange.)                       *)
(***************************************************************************)
C3_RangeCheckSound ==
    (Returned("range_check") /\ Pow(2, last.args[2]) <= p) =>
        LET var == last.args[1]
            n_bits == last.args[2]
            b == last.ret
        IN  \A w \in Accepted(CS) :
                /\ \A i \in 1 .. n_bits : w[b[i] + 1] \in {0, 1}
                /\ w[var + 1] = SumBits(w, b, 1)
                /\ w[var + 1] < Pow(2, n_bits)

\* a 5-bit range check of a value >= 32: the stored witness is rejected, and
\* other witnesses are accepted
C3_Witness ==
    /\ Returned("range_check")
    /\ last.args[2] = 5
    /\ Pow(2, 5) <= p
    /\ W(pre, last.args[1]) >= 32
    /\ Accepted(CS) # {}

C5_EqualEnforced ==
    Returned("equal") =>
        \A w \in Accepted(CS) : w[last.args[1] + 1] = w[last.args[2] + 1]

(***************************************************************************)
(* C6.  After insert_boolean_gate(var), no accepted witness has            *)
(* witness[var] outside {0, 1}, and the boolean row (the last one) is      *)
(* satisfied whenever witness[var] is 0 or 1.                              *)
(***************************************************************************)
C6_BooleanGate ==
    Returned("insert_boolean_gate") =>
        LET var == last.args[1]
        IN  /\ \A w \in Accepted(CS) : w[var + 1] \in {0, 1}
            /\ \A f \in [RowVars(CS, size - 1) -> F] :
                   f[var] \in {0, 1} => RowSatisfied(CS, FullOf(CS, f), size - 1)

\* a boolean gate on a variable whose stored value is not boolean
C6_Witness ==
    /\ Returned("insert_boolean_gate")
    /\ Aligned(CS)
    /\ W(CS, last.args[1]) \notin {0, 1}
    /\ verify_witness(CS, witness, <<>>) = "Err"

(***************************************************************************)
(* C7.  select(var0, var1, bit) allocates one output variable, whose       *)
(* stored value is witness[var0] when witness[bit] = 0 and witness[var1]   *)
(* when witness[bit] = 1, and inserts exactly one row, with wires          *)
(* (bit, var0, bit, var1, out).                                            *)
(***************************************************************************)
C7_Select ==
    Returned("select") =>
        LET var0 == last.args[1]
            var1 == last.args[2]
            bit == last.args[3]
            out == pre.num_vars
        IN  /\ num_vars = pre.num_vars + 1
            /\ last.ret = <<out>>
            /\ Len(witness) = Len(pre.witness) + 1
            /\ SubSeq(witness, 1, Len(pre.witness)) = pre.witness
            /\ W(pre, bit) = 0 => witness[Len(witness)] = W(pre, var0)
            /\ W(pre, bit) = 1 => witness[Len(witness)] = W(pre, var1)
            /\ Aligned(pre) => W(CS, out) = witness[Len(witness)]
            /\ size = pre.size + 1
            /\ \A k \in 1 .. N_WIRES_PER_GATE :
                   wiring[k] = Append(pre.wiring[k],
                                      <<bit, var0, bit, var1, out>>[k])
            /\ \A i \in 1 .. N_SELECTORS :
                   /\ Len(selectors[i]) = Len(pre.selectors[i]) + 1
                   /\ SubSeq(selectors[i], 1, Len(pre.selectors[i]))
                          = pre.selectors[i]

\* a select between two different values whose control bit holds 1
C7_Witness ==
    /\ Returned("select")
    /\ W(pre, last.args[3]) = 1
    /\ W(pre, last.args[1]) # W(pre, last.args[2])
    /\ W(CS, last.ret[1]) = W(pre, last.args[2])

(***************************************************************************)
(* C8.  The row inserted by select(var0, var1, bit) is satisfied by a      *)
(* witness if and only if                                                  *)
(* witness[out] = witness[var0] + witness[bit] * (witness[var1] -          *)
(* witness[var0]), for every field value of witness[bit].                  *)
(***************************************************************************)
C8_SelectRow ==
    Returned("select") =>
        LET var0 == last.args[1]
            var1 == last.args[2]
            bit == last.args[3]
            out == last.ret[1]
        IN  \A f \in [RowVars(CS, size - 1) -> F] :
                RowSatisfied(CS, FullOf(CS, f), size - 1)
                <=> f[out] = FAdd(f[var0],
                                  FMul(f[bit], FSub(f[var1], f[var0])))

\* a select whose control bit holds neither 0 nor 1
C8_Witness ==
    /\ Returned("select")
    /\ W(pre, last.args[3]) \notin {0, 1}
    /\ last.args[1] # last.args[2]
    /\ W(pre, last.args[1]) # W(pre, last.args[2])

(***************************************************************************)
(* C9.  An equality test of x and y (in-bound, witness store not cleared)  *)
(* returns; the flag variable holds 1 when witness[x] = witness[y] and 0   *)
(* otherwise, the not-equal variable holds the complement, is_equal        *)
(* returns the flag and is_not_equal the complement, and the stored        *)
(* witness has diff * equal_flag = 0.                                      *)
(***************************************************************************)
C9_IsEqualHonest ==
    (/\ last.op \in EqualityTests
     /\ last.args[1] < pre.num_vars
     /\ last.args[2] < pre.num_vars
     /\ Aligned(pre)) =>
        /\ ~panicked
        /\ LET x == last.args[1]
               y == last.args[2]
               diff == get_witness_index(CS, 4, pre.size)
               mul_var == get_witness_index(CS, 4, pre.size + 1)
               equal_flag == get_witness_index(CS, 4, pre.size + 2)
               same == W(pre, x) = W(pre, y)
           IN  /\ W(CS, equal_flag) = (IF same THEN FOne ELSE FZero)
               /\ W(CS, mul_var) = (IF same THEN FZero ELSE FOne)
               /\ FMul(W(CS, diff), W(CS, equal_flag)) = FZero
               /\ last.op = "is_equal" => last.ret = <<equal_flag>>
               /\ last.op = "is_not_equal" => last.ret = <<mul_var>>
               /\ last.op = "is_equal_or_not_equal"
                      => last.ret = <<equal_flag, mul_var>>

\* is_equal of two different variables that hold the same value: the
\* difference is zero and its inversion fails
C9_Witness ==
    /\ Returned("is_equal")
    /\ last.args[1] # last.args[2]
    /\ W(pre, last.args[1]) = W(pre, last.args[2])
    /\ W(CS, last.ret[1]) = FOne

(***************************************************************************)
(* C10.  range_check(var, n_bits) with n_bits >= 2 on a stored value       *)
(* >= 2^n_bits returns, and verify_witness rejects the witness it leaves:  *)
(* every row before the last is satisfied and the reconstruction row (the  *)
(* last) is not.  (Stated for SpecRange.)                                  *)
(***************************************************************************)
C10_RangeCheckOutOfRange ==
    (/\ last.op = "range_check"
     /\ last.args[2] >= 2
     /\ W(pre, last.args[1]) >= Pow(2, last.args[2])) =>
        /\ ~panicked
        /\ verify_witness(CS, witness, <<>>) = "Err"
        /\ \A r \in 0 .. size - 2 : VerifyRow(CS, witness, <<>>, r) = "Ok"
        /\ VerifyRow(CS, witness, <<>>, size - 1) = "Err"

\* a 5-bit range check (one fold and a one-bit last row) of the value 36
C10_Witness ==
    /\ Returned("range_check")
    /\ last.args[2] = 5
    /\ W(pre, last.args[1]) = 36
    /\ verify_witness(CS, witness, <<>>) = "Err"

(***************************************************************************)
(* C11.  range_check(var, n_bits) returns exactly n_bits variable indices, *)
(* the ones allocated by the call in increasing order, least significant   *)
(* bit first: the i-th holds bit i of the little-endian binary form of the *)
(* value's bytes, 0 beyond the bytes' length; the bits from n_bits on are  *)
(* dropped.  (Stated for SpecRange.)                                       *)
(***************************************************************************)
C11_RangeCheckBits ==
    Returned("range_check") =>
        LET var == last.args[1]
            n_bits == last.args[2]
            b == last.ret
            bytes == ToBytes(W(pre, var))
        IN  /\ Len(b) = n_bits
            /\ \A i \in 1 .. n_bits :
                /\ b[i] = pre.num_vars + i - 1
                /\ b[i] < num_vars
                /\ witness[b[i] + 1] =
                       IF i <= 8 * Len(bytes)
                       THEN (bytes[((i - 1) \div 8) + 1]
                                \div Pow(2, (i - 1) % 8)) % 2
                       ELSE 0

\* three bits of 36 = 100100b: the low bits 0, 0, 1 are kept, the rest dropped
C11_Witness ==
    /\ Returned("range_check")
    /\ last.args[2] = 3
    /\ W(pre, last.args[1]) = 36
    /\ [i \in 1 .. 3 |-> witness[last.ret[i] + 1]] = <<0, 0, 1>>

\* vectors handed to verify_witness: the constant vectors of length n, and
\* the stored witness cut or extended to length n
VectorsOfLen(n) ==
    {[i \in 1 .. n |-> x] : x \in F}
    \cup {[i \in 1 .. n |-> IF i <= Len(witness) THEN witness[i] ELSE FZero]}

(***************************************************************************)
(* C12.  verify_witness(witness, online_vars) returns an error whenever    *)
(* witness.len() differs from num_vars or online_vars.len() differs from   *)
(* the number of public-input bindings: no row is evaluated, so the answer *)
(* is the error also where a row would index outside the witness or where  *)
(* every row is satisfied.                                                 *)
(***************************************************************************)
C12_LengthChecks ==
    LET n_pub == Len(public_vars_witness_indices)
    IN  \A n \in 0 .. num_vars + 1 : \A k \in 0 .. n_pub + 1 :
            (n # num_vars \/ k # n_pub) =>
                \A w \in VectorsOfLen(n) : \A online_vars \in VectorsOfLen(k) :
                    verify_witness(CS, w, online_vars) = "Err"

\* a system with rows and a binding whose stored witness is accepted, and is
\* turned away with one more entry or with one public input fewer
C12_Witness ==
    /\ size > 0
    /\ Len(public_vars_witness_indices) > 0
    /\ Aligned(CS)
    /\ verify_witness(CS, witness, OnlineOf(CS, witness)) = "Ok"
    /\ verify_witness(CS, Append(witness, FZero), OnlineOf(CS, witness)) = "Err"
    /\ verify_witness(CS, witness, Tail(OnlineOf(CS, witness))) = "Err"

\* witnesses handed to verify_witness: the stored one, the stored one with
\* one entry changed, and the constant vectors
WitnessesTried ==
    {witness}
    \cup {[witness EXCEPT ![i] = x] : i \in 1 .. Len(witness), x \in F}
    \cup {[i \in 1 .. num_vars |-> x] : x \in F}

\* public inputs for w: the bound values of w with one entry changed, and
\* the constant vectors
MismatchedOnlines(w) ==
    LET n_pub == Len(public_vars_witness_indices)
    IN  {o \in {[OnlineOf(CS, w) EXCEPT ![k] = x] : k \in 1 .. n_pub, x \in F}
               \cup {[k \in 1 .. n_pub |-> x] : x \in F} :
            o # OnlineOf(CS, w)}

(***************************************************************************)
(* C13.  With variables bound by prepare_io_variable, verify_witness       *)
(* returns an error whenever a supplied public value differs from the      *)
(* witness value of its bound variable, whether or not the rows are        *)
(* satisfied otherwise, and returns Ok for the stored witness with the     *)
(* public values equal to the witness values of the bound variables.       *)
(* (Stated for SpecIo.)                                                    *)
(***************************************************************************)
C13_PublicInputBinding ==
    (Len(public_vars_witness_indices) > 0 /\ ~panicked) =>
        /\ \A w \in WitnessesTried : \A o \in MismatchedOnlines(w) :
               verify_witness(CS, w, o) = "Err"
        /\ verify_witness(CS, witness, OnlineOf(CS, witness)) = "Ok"

\* a bound variable of value 2 behind a gadget row: accepted with public
\* value 2, turned away with public value 3
C13_Witness ==
    /\ Returned("prepare_io_variable")
    /\ size > 1
    /\ W(CS, last.args[1]) = 2
    /\ verify_witness(CS, witness, <<2>>) = "Ok"
    /\ verify_witness(CS, witness, <<3>>) = "Err"

\* row r is the constant gate of var with constant 0: every wire is var, the
\* output selector is 1 and every other selector is 0
ConstantZeroRow(c, r, var) ==
    /\ \A k \in 1 .. N_WIRES_PER_GATE : c.wiring[k][r + 1] = var
    /\ \A i \in 1 .. N_SELECTORS - 1 : c.selectors[i][r + 1] = FZero
    /\ c.selectors[N_SELECTORS][r + 1] = FOne

IsPowerOfTwo(n) == \E e \in 0 .. n : Pow(2, e) = n

\* every wire column and every selector column has n entries
ColumnsOfLen(c, n) ==
    /\ \A k \in 1 .. N_WIRES_PER_GATE : Len(c.wiring[k]) = n
    /\ \A i \in 1 .. N_SELECTORS : Len(c.selectors[i]) = n

(***************************************************************************)
(* C15.  After pad, size is the smallest power of two that is >= the size  *)
(* before pad (unchanged when that was a power of two), and every selector *)
(* and wire column has that length.  (Stated for SpecPad.)                 *)
(***************************************************************************)
C15_PadSize ==
    Returned("pad") =>
        /\ IsPowerOfTwo(size)
        /\ size >= pre.size
        /\ \A n \in pre.size .. size - 1 : ~IsPowerOfTwo(n)
        /\ IsPowerOfTwo(pre.size) => size = pre.size
        /\ ColumnsOfLen(CS, size)

\* five rows padded to eight
C15_Witness ==
    /\ Returned("pad")
    /\ pre.size = 5
    /\ size = 8
    /\ ColumnsOfLen(CS, 8)

(***************************************************************************)
(* C16.  Every row appended by pad is satisfied by every witness vector of *)
(* length num_vars, for every system pad is called on (the empty one       *)
(* included), and verify_witness gives the same verdict for a witness and  *)
(* public inputs after pad as before it.                                   *)
(***************************************************************************)
C16_PadRowsSatisfied ==
    Returned("pad") =>
        \A w \in {x \in WitnessesTried : Len(x) = num_vars} :
            \A o \in {OnlineOf(CS, w)} \cup MismatchedOnlines(w) :
                /\ \A r \in pre.size .. size - 1 :
                       VerifyRow(CS, w, o, r) = "Ok"
                /\ verify_witness(CS, w, o) = verify_witness(pre, w, o)

(***************************************************************************)
(* C17.  After every call that returned (any gadget, prepare_io_variable,  *)
(* pad), there are 5 wire columns and 13 selector columns and each has     *)
(* exactly size entries.                                                   *)
(***************************************************************************)
C17_ColumnsMatchSize ==
    ~panicked =>
        /\ Len(wiring) = 5
        /\ Len(selectors) = 13
        /\ ColumnsOfLen(CS, size)

\* a public-input row followed by the four rows of an equality test
C17_Witness ==
    /\ Returned("is_equal")
    /\ pre.size = 1
    /\ Len(public_vars_constraint_indices) = 1
    /\ ColumnsOfLen(CS, 5)

(***************************************************************************)
(* C18.  After any sequence of calls that returned, pad on any system      *)
(* included, every entry of every wire column is a variable index: it is   *)
(* strictly less than num_vars.                                            *)
(***************************************************************************)
C18_WiresAreVariables ==
    ~panicked =>
        \A k \in 1 .. N_WIRES_PER_GATE : \A r \in 1 .. Len(wiring[k]) :
            wiring[k][r] < num_vars

\* the calls that return the one variable they allocate
OneOutputGadgets == {"add", "sub", "mul", "linear_combine", "select"}

(***************************************************************************)
(* C19.  Variable indices are handed out as 0, 1, 2, ... in allocation     *)
(* order and never reused: a call that returned leaves num_vars at least   *)
(* what it was, the variables it allocated are the indices from the old    *)
(* num_vars up, and the indices it returns for them are those.  While the  *)
(* witness store has not been cleared it has exactly num_vars entries, the *)
(* entries of the older variables are unchanged, and an allocated variable *)
(* holds the value given to it.                                            *)
(***************************************************************************)
C19_VariableAllocation ==
    ~panicked =>
        /\ num_vars >= pre.num_vars
        /\ last.op = "new_variable" =>
               /\ last.ret = <<pre.num_vars>>
               /\ num_vars = pre.num_vars + 1
               /\ Aligned(pre) => witness = Append(pre.witness, last.args[1])
        /\ last.op = "add_variables" =>
               /\ num_vars = pre.num_vars + Len(last.args)
               /\ Aligned(pre) => witness = pre.witness \o last.args
        /\ last.op \in OneOutputGadgets =>
               /\ last.ret = <<pre.num_vars>>
               /\ num_vars = pre.num_vars + 1
        /\ last.op = "zero_var" =>
               IF pre.zero_var = <<>>
               THEN /\ last.ret = <<pre.num_vars>>
                    /\ num_vars = pre.num_vars + 1
                    /\ Aligned(pre) => W(CS, last.ret[1]) = FZero
               ELSE last.ret = pre.zero_var /\ num_vars = pre.num_vars
        /\ last.op = "one_var" =>
               IF pre.one_var = <<>>
               THEN /\ last.ret = <<pre.num_vars>>
                    /\ num_vars = pre.num_vars + 1
                    /\ Aligned(pre) => W(CS, last.ret[1]) = FOne
               ELSE last.ret = pre.one_var /\ num_vars = pre.num_vars
        /\ last.op \in EqualityTests \cup {"range_check"} =>
               \A i \in 1 .. Len(last.ret) :
                   last.ret[i] \in pre.num_vars .. num_vars - 1
        /\ (Aligned(pre) /\ last.op # "get_and_clear_witness") =>
               /\ Len(witness) = num_vars
               /\ SubSeq(witness, 1, pre.num_vars) = pre.witness

\* two values added after a gadget output: variables 2 and 3
C19_Witness ==
    /\ Returned("add_variables")
    /\ pre.num_vars = 2
    /\ pre.size = 1
    /\ num_vars = 4
    /\ Len(witness) = 4
    /\ <<witness[3], witness[4]>> = last.args

(***************************************************************************)
(* C20.  get_and_clear_witness returns the stored values in variable-index *)
(* order (all num_vars of them while the store was not cleared before) and *)
(* leaves the store empty, so that a second call returns the empty vector; *)
(* rows, selectors, size, num_vars, the reserved variables and the         *)
(* public-input bindings are unchanged, and verify_witness gives for the   *)
(* returned vector the verdict it gave for the store before the call.      *)
(***************************************************************************)
C20_GetAndClearWitness ==
    Returned("get_and_clear_witness") =>
        /\ last.ret = pre.witness
        /\ Aligned(pre) => Len(last.ret) = num_vars
        /\ witness = <<>>
        /\ get_and_clear_witness(CS).ret = <<>>
        /\ CS = [pre EXCEPT !.witness = <<>>]
        /\ \A o \in VectorsOfLen(Len(public_vars_witness_indices))
                      \cup (IF Aligned(pre) THEN {OnlineOf(pre, pre.witness)}
                            ELSE {}) :
               verify_witness(CS, last.ret, o) = verify_witness(pre, pre.witness, o)

\* a system with a row and a binding whose extracted witness is accepted
C20_Witness ==
    /\ Returned("get_and_clear_witness")
    /\ size > 0
    /\ Len(public_vars_witness_indices) > 0
    /\ Len(last.ret) = num_vars
    /\ witness = <<>>
    /\ verify_witness(CS, last.ret, OnlineOf(CS, last.ret)) = "Ok"

\* sum over i = k .. 13 of sels[i] * mults[i]
RECURSIVE SelectorSum(_, _, _)
SelectorSum(sels, mults, k) ==
    IF k > N_SELECTORS THEN FZero
    ELSE FAdd(FMul(sels[k], mults[k]), SelectorSum(sels, mults, k + 1))

C22_SelectOutputSatisfiesRow ==
    (Returned("select") /\ Aligned(pre)) =>
        VerifyRow(CS, witness, OnlineOf(CS, witness), size - 1) = "Ok"

\* how many of the leading arguments of a call are variable indices
IndexArgs(op) ==
    CASE op = "insert_lc_gate" -> 5
      [] op = "linear_combine" -> 4
      [] op \in {"insert_add_gate", "insert_sub_gate", "insert_mul_gate",
                 "select"} -> 3
      [] op \in {"add", "sub", "mul", "equal"} \cup EqualityTests -> 2
      [] op \in {"insert_boolean_gate", "range_check", "insert_constant_gate",
                 "prepare_io_variable"} -> 1
      [] OTHER -> 0

\* the last call broke the contract of its gadget: a variable index that was
\* not allocated, or a range check of fewer than two bits
ContractViolation ==
    \/ \E i \in 1 .. IndexArgs(last.op) : last.args[i] >= pre.num_vars
    \/ last.op = "range_check" /\ last.args[2] < 2

(***************************************************************************)
(* C23.  A gadget call with a variable index >= num_vars (equal and        *)
(* prepare_io_variable included), or range_check with n_bits < 2, is       *)
(* rejected and leaves the constraint system exactly as it was before the  *)
(* call: no row or part of a row, no new variable, no reserved-variable    *)
(* allocation and no public-input binding is added.                        *)
(***************************************************************************)
C23_RejectedCallChangesNothing ==
    ContractViolation =>
        /\ panicked
        /\ CS = pre

\* the assignments of the variables the last row reads
LastRowAssignments == [RowVars(CS, size - 1) -> F]

\* the ones among them that satisfy the last row
LastRowSatisfiedBy ==
    {f \in LastRowAssignments : RowSatisfied(CS, FullOf(CS, f), size - 1)}

(***************************************************************************)
(* C24.  The row inserted by insert_lc_gate(wires, out, q1..q4) is         *)
(* satisfied exactly when witness[out] = q1*w1 + q2*w2 + q3*w3 + q4*w4;    *)
(* the rows of insert_add_gate, insert_sub_gate and insert_mul_gate        *)
(* exactly when witness[out] is left + right, left - right and             *)
(* left * right, whatever value variable 0 (their unused wires) holds; the *)
(* row of insert_constant_gate(var, c), with no public value, exactly when *)
(* witness[var] = c.  (Stated for SpecRows.)                               *)
(***************************************************************************)
C24_PrimitiveGateRows ==
    LET a == last.args
        Lc(f) == f[a[5]] = (a[6] * f[a[1]] + a[7] * f[a[2]]
                            + a[8] * f[a[3]] + a[9] * f[a[4]]) % p
        Sum(f) == f[a[3]] = (f[a[1]] + f[a[2]]) % p
        Difference(f) == (f[a[3]] + f[a[2]]) % p = f[a[1]]
        Product(f) == f[a[3]] = (f[a[1]] * f[a[2]]) % p
        Constant(f) == f[a[1]] = a[2]
    IN  /\ Returned("insert_lc_gate") =>
               LastRowSatisfiedBy = {f \in LastRowAssignments : Lc(f)}
        /\ Returned("insert_add_gate") =>
               LastRowSatisfiedBy = {f \in LastRowAssignments : Sum(f)}
        /\ Returned("insert_sub_gate") =>
               LastRowSatisfiedBy = {f \in LastRowAssignments : Difference(f)}
        /\ Returned("insert_mul_gate") =>
               LastRowSatisfiedBy = {f \in LastRowAssignments : Product(f)}
        /\ Returned("insert_constant_gate") =>
               LastRowSatisfiedBy = {f \in LastRowAssignments : Constant(f)}

\* a subtraction gate on variables 1, 2, 3: variable 0 fills the unused
\* wires and is none of them
C24_Witness ==
    /\ Returned("insert_sub_gate")
    /\ last.args = <<1, 2, 3>>
    /\ 0 \in RowVars(CS, size - 1)
    /\ RowSatisfied(CS, <<4, 3, 1, 2, 0>>, size - 1)
    /\ ~RowSatisfied(CS, <<4, 3, 1, 3, 0>>, size - 1)

\* the selector values of row r
RowSelectors(c, r) == [i \in 1 .. N_SELECTORS |-> c.selectors[i][r + 1]]

\* the selectors insert_sub_gate pushes: q1 = 1, q2 = -1, qo = 1
SubSelectors ==
    [i \in 1 .. N_SELECTORS |->
        IF i \in {1, N_SELECTORS} THEN FOne ELSE IF i = 2 THEN FNeg(FOne) ELSE FZero]

\* the selectors insert_mul_gate pushes: qm1 = 1, qo = 1
MulSelectors ==
    [i \in 1 .. N_SELECTORS |-> IF i \in {5, N_SELECTORS} THEN FOne ELSE FZero]

\* inv_diff: the second input wire of the call's first multiplication row
InvDiffVar == get_witness_index(CS, 1, pre.size + 1)

\* the variable inv_diff was allocated by the last call, right after diff,
\* and (witness store not cleared) holds the inverse of diff, or 0 for diff = 0
InvDiffAllocated ==
    /\ InvDiffVar = pre.num_vars + 1
    /\ InvDiffVar < num_vars
    /\ Aligned(pre) =>
           LET diff == W(CS, pre.num_vars)
           IN  IF diff = FZero THEN W(CS, InvDiffVar) = FZero
               ELSE FMul(diff, W(CS, InvDiffVar)) = FOne

(***************************************************************************)
(* C25 as stated.  Each call to is_equal_or_not_equal (and to is_equal /   *)
(* is_not_equal) increases the row count by exactly 3, one subtraction row *)
(* and two multiplication rows, and allocates one fresh witness variable   *)
(* for inv_diff.                                                           *)
(***************************************************************************)
C25_ThreeRows ==
    (last.op \in EqualityTests /\ ~panicked) =>
        /\ size = pre.size + 3
        /\ RowSelectors(CS, pre.size) = SubSelectors
        /\ RowSelectors(CS, pre.size + 1) = MulSelectors
        /\ RowSelectors(CS, pre.size + 2) = MulSelectors
        /\ InvDiffAllocated

(***************************************************************************)
(* C25 as amended.  Each call to is_equal_or_not_equal (and to is_equal /  *)
(* is_not_equal) that returns increases the row count by exactly 4: a      *)
(* subtraction row (diff), a multiplication row (diff * inv_diff), a       *)
(* second subtraction row (1 - diff * inv_diff) and a multiplication row   *)
(* (diff * equal_flag = 0); it allocates one fresh witness variable for    *)
(* inv_diff, next to the three output variables of its sub and mul calls   *)
(* and the reserved one and zero variables where they were not allocated   *)
(* yet.                                                                    *)
(***************************************************************************)
C25_FourRows ==
    (last.op \in EqualityTests /\ ~panicked) =>
        /\ size = pre.size + 4
        /\ RowSelectors(CS, pre.size) = SubSelectors
        /\ RowSelectors(CS, pre.size + 1) = MulSelectors
        /\ RowSelectors(CS, pre.size + 2) = SubSelectors
        /\ RowSelectors(CS, pre.size + 3) = MulSelectors
        /\ InvDiffAllocated
        /\ num_vars = pre.num_vars + 4
                      + (IF pre.one_var = <<>> THEN 1 ELSE 0)
                      + (IF pre.zero_var = <<>> THEN 1 ELSE 0)

\* an equality test of two different values when the reserved variables
\* exist already: four rows and four variables are added
C25_Witness ==
    /\ Returned("is_equal_or_not_equal")
    /\ pre.one_var # <<>>
    /\ pre.zero_var # <<>>
    /\ size = pre.size + 4
    /\ num_vars = pre.num_vars + 4
    /\ W(CS, pre.num_vars) # FZero

(***************************************************************************)
(* C26.  Once pad has been called, the shape of the system is frozen: no   *)
(* later operation on the constraint system changes size or num_vars.      *)
(***************************************************************************)
C26_FrozenAfterPad ==
    [][padded => (size' = size /\ num_vars' = num_vars)]_vars

(***************************************************************************)
(* C27.  For every constraint system (with at least one row),              *)
(* quot_eval_dom_size() is strictly larger than 5 * size + 7.  (Stated for *)
(* SpecPad.)                                                               *)
(***************************************************************************)
C27_QuotEvalDomSize ==
    size > 0 => quot_eval_dom_size(CS) > 5 * size + 7

\* The reserved variable kept in field `now` (`before` the last call), of
\* value `value`: once allocated its index never changes; the call that
\* allocates it takes an index that was not allocated before and stores
\* `value` for it.
ReservedOnce(before, now, value) ==
    /\ before # <<>> => now = before
    /\ (before = <<>> /\ now # <<>>) =>
           /\ now[1] \in pre.num_vars .. num_vars - 1
           /\ Aligned(pre) => W(CS, now[1]) = value
    /\ (now # <<>> /\ Aligned(CS)) => W(CS, now[1]) = value

\* The direct call: the first one allocates exactly one variable holding
\* `value` and returns it; a later one returns the cached index and changes
\* nothing.
ReservedCall(before, now, value) ==
    IF before = <<>>
    THEN /\ last.ret = <<pre.num_vars>>
         /\ now = last.ret
         /\ num_vars = pre.num_vars + 1
         /\ witness = Append(pre.witness, value)
    ELSE /\ last.ret = before
         /\ CS = pre

(***************************************************************************)
(* C28.  The reserved zero and one variables are each allocated at most    *)
(* once per system: the first zero_var() / one_var() call, direct or       *)
(* through equal or an equality test, allocates one variable holding 0 / 1 *)
(* respectively, and every later call returns that same index without      *)
(* changing num_vars or the witness store (equal with the zero variable    *)
(* allocated changes neither).                                             *)
(***************************************************************************)
C28_ReservedVariables ==
    /\ ReservedOnce(pre.zero_var, zero_var, FZero)
    /\ ReservedOnce(pre.one_var, one_var, FOne)
    /\ (zero_var # <<>> /\ one_var # <<>>) => zero_var # one_var
    /\ Returned("zero_var") => ReservedCall(pre.zero_var, zero_var, FZero)
    /\ Returned("one_var") => ReservedCall(pre.one_var, one_var, FOne)
    /\ last.op = "zero_var" => one_var = pre.one_var
    /\ last.op = "one_var" => zero_var = pre.zero_var
    /\ (Returned("equal") /\ pre.zero_var # <<>>) =>
           /\ num_vars = pre.num_vars
           /\ witness = pre.witness

\* a second zero_var() after the one variable was allocated behind the zero
\* variable: it returns index 0 again
C28_Witness ==
    /\ Returned("zero_var")
    /\ pre.zero_var = <<0>>
    /\ pre.one_var = <<1>>
    /\ last.ret = <<0>>
    /\ num_vars = 2
    /\ witness = <<FZero, FOne>>

====
